---------------------------- MODULE Spec2Model ----------------------------
(***************************************************************************)
(* A model of src/wallpaper.py: the seeded linear congruential generator   *)
(* DeterministicRNG and the WallpaperPattern engine built on it.           *)
(*                                                                         *)
(* Numbers.  TLC's integers are 32 bits wide, Python's are unbounded and   *)
(* its floats are doubles.  The generator is modelled exactly: a*seed is   *)
(* reduced modulo m without ever forming the product (MulSmall, MulA).     *)
(* A float is modelled as a fixed-point integer with FracBits fractional   *)
(* bits (value * Scale, rounded towards minus infinity).  An angle is      *)
(* modelled in twelfths of a turn: every angle _set_rules assigns is a     *)
(* multiple of pi/6 or pi/4 and the rotation rules only use multiples of   *)
(* pi/6; base_rotation, a random angle, is kept to the twelfth below it.   *)
(*                                                                         *)
(* Values.  An optional value (Python's None or a value) is a sequence of  *)
(* length 0 or 1.  A glyph is an integer: a code point for a one-character *)
(* string, and -k for the k-th entry of glitch_chars, which in the source  *)
(* file is a string of two or three characters (GlyphLen).                 *)
(***************************************************************************)
EXTENDS Integers, Sequences, FiniteSets, TLC

VARIABLES
    rng,    \* the seed register of a stand-alone DeterministicRNG
    call,   \* the last call made on rng: operation, arguments, result
    pat,    \* a WallpaperPattern instance
    world,  \* the environment pat runs in: the clock, the Unicode database
    twin,   \* a second run of the program: its environment and its instance
    last,   \* the last operation on pat: its arguments, the instance
            \* before it, the cells it indexed, what it selected and placed
    steps,  \* number of operations performed so far
    srv,    \* the live-preview server: connections waiting, requests in a
            \* handler, responses written
    run     \* draw_pattern or embed_poem in progress on pat, one pass of
            \* its loop at a time: the loop indices and the running state

vars == <<rng, call, pat, world, twin, last, steps, srv, run>>

---------------------------------------------------------------------------
(* Bounds of the model *)

\* fractional bits of the fixed-point representation of a float
FracBits == 10

\* operations performed on the stand-alone generator in one behaviour
MaxRngSteps == 2

---------------------------------------------------------------------------
(* DeterministicRNG *)

RngA == 1664525
RngC == 1013904223
RngM == 982451497

None == <<>>
Some(v) == <<v>>

\* The value of the one-element set S.  TLC evaluates a LET definition or an
\* operator argument anew at each place it is read when it measures
\* coverage; a value that is costly and read more than once is therefore
\* bound by a set constructor: The({e(x) : x \in {v}}) is
\* LET x == v IN e(x) with v evaluated once, before e.
The(S) == CHOOSE v \in S : TRUE

RECURSIVE Pow2(_)
Pow2(n) == IF n = 0 THEN 1 ELSE 2 * Pow2(n - 1)

Scale == Pow2(FracBits)

\* (f * x) mod m for 0 <= x < m and f * f <= m, without forming f * x
\* (Schrage's decomposition m = q*f + r, r < q).
MulSmall(f, x) ==
    LET q == RngM \div f
        r == RngM % f
        t == f * (x % q) - r * (x \div q)
    IN  IF t < 0 THEN t + RngM ELSE t

\* (a * x) mod m for 0 <= x < m, with a = 1290 * 1290 + 425
MulA(x) ==
    LET f == 1290
        g == RngA - f * f
    IN  The({(MulSmall(f, y) + MulSmall(g, x)) % RngM : y \in {MulSmall(f, x)}})

\* random(): the new seed, which is also the value returned
RandomBadIncrement(seed) == The({MulA(x) : x \in {seed % RngM}})

Random(seed) == The({(MulA(x) + RngC) % RngM : x \in {seed % RngM}})

\* Every operation below returns [seed |-> the register after the call,
\* ret |-> the value returned, raised |-> whether the call raised].

RandomIntGuardOffByOne(seed, spread) ==
    IF spread < 0
    THEN [seed |-> seed, ret |-> 0, raised |-> FALSE]
    ELSE IF spread = 0
         THEN [seed |-> Random(seed), ret |-> 0, raised |-> TRUE]
         ELSE [seed |-> Random(seed), ret |-> Random(seed) % spread,
               raised |-> FALSE]

RandomInt(seed, spread) ==
    IF spread <= 0
    THEN [seed |-> seed, ret |-> 0, raised |-> FALSE]
    ELSE The({[seed |-> s, ret |-> s % spread, raised |-> FALSE] :
              s \in {Random(seed)}})

RandomRangeExclusiveSpan(seed, min_val, max_val) ==
    The({[r EXCEPT !.ret = min_val + r.ret] :
         r \in {RandomInt(seed, max_val - min_val + 2)}})

RandomRange(seed, min_val, max_val) ==
    The({[r EXCEPT !.ret = min_val + r.ret] :
         r \in {RandomInt(seed, max_val - min_val + 1)}})

\* floor(s * 2^n / m) for 0 <= s < m, by n doublings
RECURSIVE FracDigits(_, _, _)
FracDigits(s, n, acc) ==
    IF n = 0 THEN acc
    ELSE The({FracDigits(d % RngM, n - 1,
                         2 * acc + (IF d >= RngM THEN 1 ELSE 0)) :
              d \in {2 * s}})

\* seed / m as a fixed-point number
Frac(s) == FracDigits(s, FracBits, 0)

\* fixed-point product
FMul(x, y) == (x * y) \div Scale

RandomFloatTwoDraws(seed) ==
    The({[seed |-> s, ret |-> Frac(s), raised |-> FALSE] :
         s \in {Random(Random(seed))}})

RandomFloat(seed) ==
    The({[seed |-> s, ret |-> Frac(s), raised |-> FALSE] :
         s \in {Random(seed)}})

RandomFloatRange(seed, min_val, max_val) ==
    The({[r EXCEPT !.ret = min_val + FMul(max_val - min_val, r.ret)] :
         r \in {RandomFloat(seed)}})

Pick(seed, array) ==
    IF array = <<>>
    THEN [seed |-> seed, ret |-> None, raised |-> FALSE]
    ELSE The({[r EXCEPT !.ret = Some(array[r.ret + 1])] :
              r \in {RandomInt(seed, Len(array))}})

\* no call made yet on the stand-alone generator
NoCall == [op |-> "new", a |-> 0, b |-> 0, arr |-> <<>>, before |-> 0,
           ret |-> None, raised |-> FALSE]

---------------------------------------------------------------------------
(* Angles, in twenty-fourths of a turn (15 degrees) *)

Turn == 24

\* 1000 * cos(15 degrees * k), k = 0..23
CosMilli ==
    << 1000,  966,  866,  707,  500,  259,
          0, -259, -500, -707, -866, -966,
      -1000, -966, -866, -707, -500, -259,
          0,  259,  500,  707,  866,  966 >>

Cos(t) == (CosMilli[(t % Turn) + 1] * Scale) \div 1000
Sin(t) == Cos(t - (Turn \div 4))

\* the square root of 3 / 16
Sqrt316 == (43301 * Scale) \div 100000

\* math.sqrt(3 / 4)
Sqrt34 == (86603 * Scale) \div 100000

\* int(): truncation towards zero of a fixed-point number
Trunc(v) == IF v >= 0 THEN v \div Scale ELSE -((-v) \div Scale)

Max(a, b) == IF a >= b THEN a ELSE b
Min(a, b) == IF a <= b THEN a ELSE b

---------------------------------------------------------------------------
(* Glyphs *)

Blank == 32
\* the value a canvas cell holds when None is stored in it
NoGlyph == 0
\* len(glitch_chars)
GlitchCount == 221

\* glitch_chars[k - 1], and the whole list
Glitch(k) == -k
GlitchChars == [k \in 1..GlitchCount |-> Glitch(k)]

\* the number of characters of the string a cell holds
GlyphLen(g) ==
    IF g >= 0 THEN 1
    ELSE IF -g \in {210, 211, 212} THEN 2 ELSE 3

\* priority_blocks, in the order of the dict
PriorityBlocks ==
    << <<9472, 9599>>, <<9600, 9631>>, <<10240, 10495>>, <<12288, 12351>>,
       <<9632, 9727>>, <<8704, 8959>>, <<8960, 9215>>, <<8592, 8703>>,
       <<9728, 9983>> >>

\* unicodedata.category(chr(cp))[0] == 'C' under the Unicode database ucd:
\* the database of the interpreter ("ucd14": no code point the builder can
\* draw is in a C category) or one in which every drawn code point is.
CategoryC(ucd, cp) == ucd = "all_control"

\* _select_unicode_chars, lines 219-220: n passes of the first loop from
\* acc = [seed, chars] (the passes are split in two halves, which keeps the
\* depth of the evaluation logarithmic in n)
RECURSIVE PickGlitch(_, _)
PickGlitch(acc, n) ==
    IF n <= 0 THEN acc
    ELSE IF n = 1
         THEN The({[seed |-> r.seed, chars |-> Append(acc.chars, r.ret[1])] :
                   r \in {Pick(acc.seed, GlitchChars)}})
         ELSE The({PickGlitch(done, n - n \div 2) :
                   done \in {PickGlitch(acc, n \div 2)}})

\* a second loop that appends nothing for a code point of a C category
PickInBlockDropControl(acc, b, ucd) ==
    The({IF ~CategoryC(ucd, c.ret)
         THEN [seed |-> c.seed, chars |-> Append(acc.chars, c.ret)]
         ELSE [seed |-> c.seed, chars |-> acc.chars] :
         c \in {RandomRange(b.seed, b.ret[1][1],
                            Min(b.ret[1][2], b.ret[1][1] + 50))}})

\* lines 225-235: one pass of the second loop, the block b being picked
PickInBlock(acc, b, ucd) ==
    The({IF ~CategoryC(ucd, c.ret)
         THEN [seed |-> c.seed, chars |-> Append(acc.chars, c.ret)]
         ELSE The({[seed |-> f.seed, chars |-> Append(acc.chars, f.ret[1])] :
                   f \in {Pick(c.seed, GlitchChars)}}) :
         c \in {RandomRange(b.seed, b.ret[1][1],
                            Min(b.ret[1][2], b.ret[1][1] + 50))}})

\* _select_unicode_chars, lines 224-235: n passes of the second loop
RECURSIVE PickBlocks(_, _, _)
PickBlocks(acc, n, ucd) ==
    IF n <= 0 THEN acc
    ELSE IF n = 1
         THEN The({PickInBlock(acc, b, ucd) :
                   b \in {Pick(acc.seed, PriorityBlocks)}})
         ELSE The({PickBlocks(done, n - n \div 2, ucd) :
                   done \in {PickBlocks(acc, n \div 2, ucd)}})

\* _select_unicode_chars(count): [seed, chars]
SelectUnicodeChars(seed, count, ucd) ==
    The({PickBlocks(first, count - Len(first.chars), ucd) :
         first \in {The({PickGlitch(acc, count \div 2) :
                         acc \in {[seed |-> seed, chars |-> <<>>]}})}})

---------------------------------------------------------------------------
(* The rule record of a wallpaper group *)

GROUP_NAMES ==
    << "p1", "pm", "pmm", "pg", "cm", "pmg", "cmm", "pgg",
       "p2", "p3", "p3m1", "p31m", "p4", "p4m", "p4g", "p6", "p6m" >>

Groups == {GROUP_NAMES[i] : i \in 1..Len(GROUP_NAMES)}

RuleFields ==
    {"polygon_sides", "angle0", "x_spacing", "y_spacing", "rotation_offset",
     "rotate_rule", "row_rotate_rule", "shear", "x_flip", "y_flip",
     "y_flip_pairs", "y_flip_rows", "instances_per_step", "mirror_instances"}

\* the rule fields of an instance
Rules(self) == [f \in RuleFields |-> self[f]]

\* defaults without an instance per step
SetDefaultsNoInstance(self) ==
    [self EXCEPT !.polygon_sides = 4,
                 !.angle0 = Turn \div 4,
                 !.x_spacing = 16 * Scale,
                 !.y_spacing = 16 * Scale,
                 !.rotation_offset = 0,
                 !.rotate_rule = 0,
                 !.row_rotate_rule = 0,
                 !.shear = 0,
                 !.x_flip = FALSE,
                 !.y_flip = FALSE,
                 !.y_flip_pairs = FALSE,
                 !.y_flip_rows = FALSE,
                 !.instances_per_step = 0,
                 !.mirror_instances = FALSE]

\* _set_rules, lines 242-255: the defaults of a rectangular grid
SetDefaults(self) ==
    [self EXCEPT !.polygon_sides = 4,
                 !.angle0 = Turn \div 4,
                 !.x_spacing = 16 * Scale,
                 !.y_spacing = 16 * Scale,
                 !.rotation_offset = 0,
                 !.rotate_rule = 0,
                 !.row_rotate_rule = 0,
                 !.shear = 0,
                 !.x_flip = FALSE,
                 !.y_flip = FALSE,
                 !.y_flip_pairs = FALSE,
                 !.y_flip_rows = FALSE,
                 !.instances_per_step = 1,
                 !.mirror_instances = FALSE]

\* _set_rules, lines 258-381: the branch of the group, applied to the object
\* as it stands (x_spacing *= ... reads the current x_spacing, and y_spacing
\* is computed from the x_spacing current at that line).
GroupRules(d, group) ==
    LET half == d.x_spacing \div 2
        twice == 2 * d.x_spacing
    IN
    CASE group = "p1" ->
           [d EXCEPT !.polygon_sides = 4,
                     !.y_spacing = FMul(Sqrt34, d.x_spacing),
                     !.angle0 = Turn \div 6,
                     !.shear = Scale \div 2,
                     !.x_spacing = half]
      [] group = "pm" ->
           [d EXCEPT !.polygon_sides = 4, !.x_flip = TRUE, !.x_spacing = half]
      [] group = "pmm" ->
           [d EXCEPT !.polygon_sides = 4, !.x_flip = TRUE,
                     !.y_flip_rows = TRUE, !.x_spacing = half]
      [] group = "pg" ->
           [d EXCEPT !.polygon_sides = 4, !.y_flip = TRUE, !.x_spacing = half]
      [] group = "pmg" ->
           [d EXCEPT !.polygon_sides = 4, !.x_flip = TRUE,
                     !.y_flip_pairs = TRUE, !.x_spacing = half]
      [] group = "cmm" ->
           [d EXCEPT !.polygon_sides = 4, !.x_flip = TRUE,
                     !.y_flip_pairs = TRUE, !.y_flip_rows = TRUE,
                     !.x_spacing = half]
      [] group = "pgg" ->
           [d EXCEPT !.polygon_sides = 4, !.row_rotate_rule = Turn \div 2,
                     !.y_flip = TRUE, !.x_spacing = half]
      [] group = "p2" ->
           [d EXCEPT !.polygon_sides = 4,
                     !.y_spacing = FMul(Sqrt34, d.x_spacing),
                     !.angle0 = Turn \div 6,
                     !.rotate_rule = Turn \div 2,
                     !.shear = Scale \div 2,
                     !.x_spacing = half]
      [] group = "p4" ->
           [d EXCEPT !.polygon_sides = 4, !.x_spacing = twice,
                     !.y_spacing = 2 * d.y_spacing,
                     !.instances_per_step = 4]
      [] group = "p4m" ->
           [d EXCEPT !.polygon_sides = 3, !.angle0 = Turn \div 8,
                     !.x_spacing = twice, !.y_spacing = 2 * d.y_spacing,
                     !.instances_per_step = 4, !.mirror_instances = TRUE]
      [] group = "p4g" ->
           [d EXCEPT !.polygon_sides = 4, !.rotate_rule = Turn \div 4,
                     !.x_spacing = twice, !.y_spacing = 2 * d.y_spacing,
                     !.shear = Scale, !.instances_per_step = 2,
                     !.mirror_instances = TRUE]
      [] group = "cm" ->
           [d EXCEPT !.polygon_sides = 4, !.x_flip = TRUE, !.shear = Scale,
                     !.x_spacing = half]
      [] group = "p3" ->
           [d EXCEPT !.polygon_sides = 4, !.rotation_offset = Turn \div 12,
                     !.angle0 = Turn \div 3, !.x_spacing = twice,
                     !.y_spacing = FMul(Sqrt34, twice),
                     !.shear = Scale \div 2, !.instances_per_step = 3]
      [] group = "p3m1" ->
           [d EXCEPT !.polygon_sides = 3, !.angle0 = Turn \div 6,
                     !.rotation_offset = Turn \div 12,
                     !.rotate_rule = Turn \div 3, !.x_spacing = twice,
                     !.y_spacing = FMul(Sqrt34, twice),
                     !.shear = Scale \div 2, !.instances_per_step = 3,
                     !.mirror_instances = TRUE]
      [] group = "p31m" ->
           [d EXCEPT !.polygon_sides = 3, !.angle0 = Turn \div 12,
                     !.x_spacing = twice,
                     !.y_spacing = FMul(Sqrt34, twice),
                     !.shear = Scale \div 2, !.instances_per_step = 3,
                     !.mirror_instances = TRUE]
      [] group = "p6" ->
           [d EXCEPT !.polygon_sides = 3, !.angle0 = Turn \div 12,
                     !.x_spacing = twice,
                     !.y_spacing = FMul(Sqrt34, twice),
                     !.shear = Scale \div 2, !.instances_per_step = 6]
      [] group = "p6m" ->
           [d EXCEPT !.polygon_sides = 3, !.angle0 = Turn \div 12,
                     !.x_spacing = twice,
                     !.y_spacing = FMul(Sqrt34, twice),
                     !.shear = Scale \div 2, !.instances_per_step = 6,
                     !.mirror_instances = TRUE]
      [] OTHER -> d

\* a _set_rules that keeps the fields as they stand before the branch
SetRulesNoReset(self, group) == GroupRules(self, group)

\* _set_rules(group)
SetRules(self, group) ==
    The({GroupRules(d, group) : d \in {SetDefaults(self)}})

---------------------------------------------------------------------------
(* WallpaperPattern: construction and the canvas *)

\* the palette size of __init__ and of the rebuild in draw_pattern
DefaultPaletteSize == 100

BlankCanvas(width, height) ==
    [r \in 1..height |-> [c \in 1..width |-> Blank]]

\* the default poem lines of _load_poems (lines 146-155), as code points
DefaultPoems ==
    <<
       <<100, 105, 103, 105, 116, 97, 108, 32, 119, 104, 105, 115, 112,
         101, 114, 115, 32, 100, 97, 110, 99, 101, 32, 97, 99, 114, 111,
         115, 115, 32, 101, 109, 112, 116, 121, 32, 115, 112, 97, 99, 101>>,
       <<102, 114, 97, 99, 116, 117, 114, 101, 100, 32, 103, 101, 111, 109,
         101, 116, 114, 121, 32, 111, 102, 32, 102, 111, 114, 103, 111,
         116, 116, 101, 110, 32, 100, 114, 101, 97, 109, 115>>,
       <<112, 97, 116, 116, 101, 114, 110, 32, 108, 111, 103, 105, 99, 32,
         101, 109, 101, 114, 103, 101, 115, 32, 102, 114, 111, 109, 32, 99,
         104, 97, 111, 115>>,
       <<101, 99, 104, 111, 101, 115, 32, 111, 102, 32, 115, 105, 108, 105,
         99, 111, 110, 32, 105, 110, 32, 112, 97, 116, 116, 101, 114, 110,
         115, 32, 117, 110, 102, 111, 108, 100>>,
       <<115, 121, 109, 109, 101, 116, 114, 121, 32, 98, 114, 101, 97, 107,
         115, 32, 97, 116, 32, 116, 104, 101, 32, 101, 100, 103, 101, 32,
         111, 102, 32, 112, 101, 114, 99, 101, 112, 116, 105, 111, 110>>,
       <<116, 101, 114, 109, 105, 110, 97, 108, 32, 98, 101, 97, 117, 116,
         121, 32, 105, 110, 32, 117, 110, 105, 99, 111, 100, 101, 32, 115,
         112, 97, 99, 101, 115>>,
       <<103, 108, 121, 112, 104, 115, 32, 97, 114, 114, 97, 110, 103, 101,
         32, 108, 105, 107, 101, 32, 99, 111, 110, 115, 116, 101, 108, 108,
         97, 116, 105, 111, 110, 115>>,
       <<100, 105, 103, 105, 116, 97, 108, 32, 97, 114, 116, 105, 102, 97,
         99, 116, 115, 32, 114, 101, 118, 101, 97, 108, 32, 104, 105, 100,
         100, 101, 110, 32, 116, 114, 117, 116, 104, 115>>,
       <<99, 104, 97, 114, 97, 99, 116, 101, 114, 115, 32, 100, 114, 105,
         102, 116, 32, 105, 110, 32, 109, 97, 116, 104, 101, 109, 97, 116,
         105, 99, 97, 108, 32, 115, 101, 97, 115>>,
       <<115, 116, 114, 117, 99, 116, 117, 114, 101, 100, 32, 114, 97, 110,
         100, 111, 109, 110, 101, 115, 115, 32, 116, 101, 108, 108, 115,
         32, 97, 32, 115, 116, 111, 114, 121>>
    >>
Whitespace == {9, 10, 11, 12, 13, 32}

\* not line.strip()
IsBlank(line) == \A i \in 1..Len(line) : line[i] \in Whitespace

\* line.strip()
RECURSIVE Strip(_)
Strip(line) ==
    IF line = <<>> THEN line
    ELSE IF line[1] \in Whitespace THEN Strip(Tail(line))
    ELSE IF line[Len(line)] \in Whitespace
         THEN Strip(SubSeq(line, 1, Len(line) - 1))
         ELSE line

\* lines 133-140: the lines one poem file adds; a file is
\* [readable, lines], lines being what readlines() gives
PoemsOfFile(file) ==
    IF file.readable /\ Len(file.lines) > 2
    THEN LET kept == SelectSeq(SubSeq(file.lines, 3, Len(file.lines)),
                               LAMBDA l : ~IsBlank(l))
         IN  [i \in 1..Len(kept) |-> Strip(kept[i])]
    ELSE <<>>

\* lines 129-140: the lines of the files of the corpus, in the order of
\* the glob
RECURSIVE PoemsOfFiles(_)
PoemsOfFiles(files) ==
    IF files = <<>> THEN <<>>
    ELSE PoemsOfFile(Head(files)) \o PoemsOfFiles(Tail(files))

\* a _load_poems without the default lines
LoadPoemsNoDefault(corpus) ==
    IF corpus = None THEN <<>> ELSE PoemsOfFiles(corpus[1])

\* _load_poems(): corpus is None without a poems directory, and the
\* sequence of its poem_*.txt files otherwise
LoadPoems(corpus) ==
    The({IF poems = <<>> THEN DefaultPoems ELSE poems :
         poems \in {IF corpus = None THEN <<>>
                    ELSE PoemsOfFiles(corpus[1])}})


\* a generator seeded from the clock whatever seed is given
InitialSeedFromClock(seed, env) == env.clock

\* seed if seed is not None else int(time.time()), seed an optional value
InitialSeed(seed, env) == IF seed = None THEN env.clock ELSE seed[1]

\* WallpaperPattern(width, height, seed) in the environment env
New(width, height, seed, env) ==
    The({The({The({
        SetRules([width |-> width, height |-> height, seed |-> chars.seed,
                  group |-> g.ret[1],
                  base_rotation |-> (rot.ret * Turn) \div Scale,
                  x_spacing |-> 16 * Scale, y_spacing |-> 16 * Scale,
                  polygon_sides |-> 4, angle0 |-> Turn \div 4,
                  rotation_offset |-> 0, rotate_rule |-> 0,
                  row_rotate_rule |-> 0, shear |-> 0,
                  x_flip |-> FALSE, y_flip |-> FALSE,
                  y_flip_pairs |-> FALSE, y_flip_rows |-> FALSE,
                  instances_per_step |-> 1, mirror_instances |-> FALSE,
                  pattern_chars |-> chars.chars,
                  canvas |-> BlankCanvas(width, height),
                  poems |-> LoadPoems(env.corpus)],
                 g.ret[1]) :
        chars \in {SelectUnicodeChars(rot.seed, DefaultPaletteSize,
                                      env.ucd)}}) :
        rot \in {RandomFloat(g.seed)}}) :
        g \in {Pick(InitialSeed(seed, env), GROUP_NAMES)}})

\* a set_random_group that picks the group and leaves the rules
SetRandomGroupKeepRules(self) ==
    The({[self EXCEPT !.seed = g.seed, !.group = g.ret[1]] :
         g \in {Pick(self.seed, GROUP_NAMES)}})

\* set_random_group()
SetRandomGroup(self) ==
    The({SetRules([self EXCEPT !.seed = g.seed, !.group = g.ret[1]],
                  g.ret[1]) :
         g \in {Pick(self.seed, GROUP_NAMES)}})

\* the group named, its rules not set
SetGroupKeepRules(self, group) == [self EXCEPT !.group = group]

\* pattern.group = group; pattern._set_rules(group)
SetGroup(self, group) == SetRules([self EXCEPT !.group = group], group)

\* list[i] of Python on a list of n items, as a 1-based position: i counts
\* from the end when negative, and 0 stands for IndexError
PyIndex(n, i) ==
    IF 0 <= i /\ i < n THEN i + 1
    ELSE IF -n <= i /\ i < 0 THEN n + i + 1
    ELSE 0

\* The running state of an operation that writes the canvas:
\* [seed, canvas, writes, raised, stamps, placed, under]; writes is the set
\* of <<row, col>> the operation has indexed the canvas with, stamps the
\* number of cells it has stored, placed the lines embed_poem has written,
\* under the canvas the operation started on.
Running(self) ==
    [seed |-> self.seed, canvas |-> self.canvas, writes |-> {},
     raised |-> FALSE, stamps |-> 0, placed |-> <<>>,
     under |-> self.canvas]

\* self.canvas[y][x] = g
SetCell(st, y, x, g) ==
    LET r == PyIndex(Len(st.canvas), y)
        c == IF r = 0 THEN 0 ELSE PyIndex(Len(st.canvas[r]), x)
    IN  IF r = 0 \/ c = 0
        THEN [st EXCEPT !.raised = TRUE, !.writes = @ \cup {<<y, x>>}]
        ELSE [st EXCEPT !.canvas[r][c] = g, !.writes = @ \cup {<<y, x>>},
                        !.stamps = @ + 1]

\* the instance with the state an operation ended in
Ended(self, st) == [self EXCEPT !.seed = st.seed, !.canvas = st.canvas]

---------------------------------------------------------------------------
(* draw_pattern *)

\* _jitter(value, amount): [seed, ret]
Jitter(seed, value, amount) ==
    The({[seed |-> r.seed, ret |-> value - amount + FMul(2 * amount, r.ret)] :
         r \in {RandomFloat(seed)}})

\* _transform_to_canvas(x, y): <<canvas_x, canvas_y>>
TransformToCanvas(self, x, y) ==
    LET center_x == self.width \div 2
        center_y == self.height \div 2
        cos_rot == Cos(self.base_rotation)
        sin_rot == Sin(self.base_rotation)
        rot_x == FMul(x, cos_rot) - FMul(y, sin_rot)
        rot_y == FMul(x, sin_rot) + FMul(y, cos_rot)
        canvas_x == Trunc(center_x * Scale + rot_x)
        canvas_y == Trunc(center_y * Scale + rot_y)
    IN  << Max(0, Min(self.width - 1, canvas_x)),
           Max(0, Min(self.height - 1, canvas_y)) >>

\* lines 567-568: the guarded store of glyph at at = <<canvas_x, canvas_y>>
StoreGlyph(self, st, at, glyph) ==
    IF /\ 0 <= at[1] /\ at[1] < self.width
       /\ 0 <= at[2] /\ at[2] < self.height
    THEN SetCell(st, at[2], at[1], glyph)
    ELSE st

\* a shift of pos_y on the even rows of a group that flips rows
ShiftsYOnEvenRows(self, y_flipped, y) == self.y_flip_rows /\ y % 2 = 0

\* lines 526-530: pos_y += y_spacing, for a stamp flipped vertically by any
\* of the three rules when the y_flip_rows flag is set
ShiftsY(self, y_flipped, y) == y_flipped /\ self.y_flip_rows

\* One pass of the body of the innermost loop (lines 517-568) at grid cell
\* (x, y), instance i and mirror sign flip, from the cell's running
\* position pos = <<pos_x, pos_y>>: [pos, final, st], final being
\* <<final_x, final_y>> before the jitter.  The mirror sign is not read.
Stamp(self, x, y, i, flip, current_rotation, pos, st) ==
    LET x_flipped == self.x_flip /\ x % 2 = 0
        pos_x == IF x_flipped THEN pos[1] + self.x_spacing ELSE pos[1]
        y_flipped == \/ self.y_flip /\ x % 2 = 0
                     \/ self.y_flip_pairs /\ (x \div 2) % 2 = 0
                     \/ self.y_flip_rows /\ y % 2 = 0
        pos_y == IF ShiftsY(self, y_flipped, y)
                 THEN pos[2] + self.y_spacing ELSE pos[2]
        rot == i * (Turn \div self.instances_per_step)
        total_rot == rot + current_rotation
        rotated == rot # 0 \/ current_rotation # 0
        rx == IF rotated
              THEN FMul(pos_x, Cos(total_rot)) - FMul(pos_y, Sin(total_rot))
              ELSE pos_x
        ry == IF rotated
              THEN FMul(pos_x, Sin(total_rot)) + FMul(pos_y, Cos(total_rot))
              ELSE pos_y
        fx == IF x_flipped THEN -rx ELSE rx
        fy == IF y_flipped THEN -ry ELSE ry
    IN  The({The({The({The({
            [pos |-> <<pos_x, pos_y>>, final |-> <<fx, fy>>,
             st |-> StoreGlyph(self, [st EXCEPT !.seed = jy.seed], at,
                               IF p.ret = None THEN Glitch(1)
                               ELSE p.ret[1])] :
            at \in {TransformToCanvas(self, jx.ret, jy.ret)}}) :
            jy \in {Jitter(jx.seed, fy, Scale \div 5)}}) :
            jx \in {Jitter(p.seed, fx, Scale \div 5)}}) :
            p \in {Pick(st.seed, self.pattern_chars)}})

\* the mirror signs of one instance, in the order of the loop
MirrorSigns(self) == IF self.mirror_instances THEN <<-1, 1>> ELSE <<1>>

\* the loops over i and flip (lines 512-516) at one cell, flattened: pass k
\* is instance k \div n, mirror sign number k % n + 1, n the number of signs
RECURSIVE StampLoop(_, _, _, _, _, _, _)
StampLoop(self, x, y, current_rotation, k, pos, st) ==
    LET n == Len(MirrorSigns(self))
    IN  IF k >= self.instances_per_step * n \/ st.raised THEN st
        ELSE The({StampLoop(self, x, y, current_rotation, k + 1,
                            s.pos, s.st) :
                  s \in {Stamp(self, x, y, k \div n,
                               MirrorSigns(self)[(k % n) + 1],
                               current_rotation, pos, st)}})

\* lines 504-509 at cell c of the flattened loops over y and x (row
\* c \div x_count, column c % x_count): [x, y, pos, current_rotation]
CellStart(self, x_count, y_count, c) ==
    LET y == c \div x_count
        x == c % x_count
        xf == x * Scale - (x_count * Scale) \div 2
        yf == y * Scale - (y_count * Scale) \div 2
    IN  [x |-> x, y |-> y,
         pos |-> <<FMul(xf + FMul(yf, self.shear), self.x_spacing),
                   FMul(yf, self.y_spacing)>>,
         current_rotation |-> self.rotate_rule * x
                              + self.row_rotate_rule * y
                              + self.rotation_offset]

\* the loops over y and x (lines 502-509), flattened, from cell c on
RECURSIVE CellLoop(_, _, _, _, _)
CellLoop(self, x_count, y_count, c, st) ==
    IF c >= x_count * y_count \/ st.raised THEN st
    ELSE The({CellLoop(self, x_count, y_count, c + 1, s) :
              s \in {The({StampLoop(self, cell.x, cell.y,
                                    cell.current_rotation, 0, cell.pos, st) :
                          cell \in {CellStart(self, x_count, y_count, c)}})}})

\* counts without the two cells of margin
GridCountNoMargin(self, spacing) ==
    Trunc(((self.height * Scale) * Scale) \div spacing)

\* x_count and y_count of draw_pattern (lines 499-500)
GridCount(self, spacing) ==
    Trunc(((self.height * Scale) * Scale) \div spacing) + 2

\* a draw_pattern that draws over the canvas as it stands
KeepCanvas(self) == self

\* lines 491-492: the canvas cleared
ClearCanvas(self) ==
    [self EXCEPT !.canvas = BlankCanvas(self.width, self.height)]

\* a draw_pattern that leaves an empty palette empty
EnsurePaletteNever(self, ucd) == self

\* lines 494-496: the palette rebuilt when it is empty
EnsurePalette(self, ucd) ==
    IF self.pattern_chars = <<>>
    THEN The({[self EXCEPT !.pattern_chars = chars.chars,
                           !.seed = chars.seed] :
              chars \in {SelectUnicodeChars(self.seed, DefaultPaletteSize,
                                            ucd)}})
    ELSE self

\* draw_pattern() under the Unicode database ucd: [self, st]
DrawPattern(self, ucd) ==
    The({The({[self |-> Ended(ready, st), st |-> st] :
              st \in {CellLoop(ready, GridCount(ready, ready.x_spacing),
                               GridCount(ready, ready.y_spacing), 0,
                               Running(ready))}}) :
         ready \in {The({EnsurePalette(cleared, ucd) :
                         cleared \in {ClearCanvas(self)}})}})

\* one pass of the loop of _draw_pattern_dense (lines 690-692)
DenseStamp(self, st) ==
    The({The({The({
        SetCell([st EXCEPT !.seed = p.seed], y.ret, x.ret,
                IF p.ret = None THEN NoGlyph ELSE p.ret[1]) :
        p \in {Pick(y.seed, self.pattern_chars)}}) :
        y \in {RandomInt(x.seed, self.height)}}) :
        x \in {RandomInt(st.seed, self.width)}})

\* the loop of _draw_pattern_dense (lines 689-692): n passes from st (the
\* passes are split in two halves)
RECURSIVE DenseLoop(_, _, _)
DenseLoop(self, n, st) ==
    IF n <= 0 \/ st.raised THEN st
    ELSE IF n = 1
         THEN DenseStamp(self, st)
         ELSE The({DenseLoop(self, n - n \div 2, done) :
                   done \in {DenseLoop(self, n \div 2, st)}})

\* _draw_pattern_dense(density_factor): [self, st]
DrawPatternDense(self, density_factor) ==
    The({The({[self |-> Ended(cleared, st), st |-> st] :
              st \in {DenseLoop(cleared,
                                Trunc(self.width * self.height
                                      * density_factor),
                                Running(cleared))}}) :
         cleared \in {[self EXCEPT
                         !.canvas = BlankCanvas(self.width, self.height)]}})

---------------------------------------------------------------------------
(* embed_poem *)

\* '<poem>' and '</poem>'
PoemOpen == <<60, 112, 111, 101, 109, 62>>
PoemClose == <<60, 47, 112, 111, 101, 109, 62>>

\* v in list
Contains(list, v) == \E i \in 1..Len(list) : list[i] = v

\* a selection that keeps every line picked
KeepsAny(selected, line) == TRUE

\* line 580: line not in selected_lines and line.strip()
Keeps(selected, line) == ~Contains(selected, line) /\ ~IsBlank(line)

\* the selection loop (lines 578-581): [seed, lines]
RECURSIVE SelectLines(_, _, _, _)
SelectLines(seed, poem_lines, n, selected) ==
    IF n <= 0 THEN [seed |-> seed, lines |-> selected]
    ELSE The({The({SelectLines(p.seed, poem_lines, n - 1, sel) :
                   sel \in {IF Keeps(selected, p.ret[1])
                            THEN Append(selected, p.ret[1])
                            ELSE selected}}) :
              p \in {Pick(seed, poem_lines)}})

\* the loop over x (lines 607-612) from column x on
RECURSIVE WriteLine(_, _, _, _, _, _)
WriteLine(self, y, start_x, line, x, st) ==
    IF x >= self.width \/ st.raised THEN st
    ELSE IF x < start_x \/ x >= start_x + Len(line)
         THEN WriteLine(self, y, start_x, line, x + 1, st)
         ELSE The({WriteLine(self, y, start_x, line, x + 1, s) :
                   s \in {IF x - start_x < Len(line)
                          THEN SetCell(st, y, x, line[x - start_x + 1])
                          ELSE st}})

\* a break that comes one row late
BelowCanvasLate(self, y) == y > self.height

\* line 595: y >= canvas_height
BelowCanvas(self, y) == y >= self.height

\* a start column computed from the line as it is written, delimiters and all
StartXOfMarked(self, line) ==
    Max(0, (self.width - Len(PoemOpen \o line \o PoemClose)) \div 2)

\* line 599: start_x, computed from the line before it is wrapped
StartX(self, line) == Max(0, (self.width - Len(line)) \div 2)

\* one pass of the loop over the lines (lines 589-612), at index i:
\* [stop, st], stop telling that the loop breaks
LineStep(self, poem_lines, spacing, i, st) ==
    LET line == poem_lines[i + 1]
        y == (i + 1) * spacing
        start_x == StartX(self, line)
    IN  IF IsBlank(line) THEN [stop |-> FALSE, st |-> st]
        ELSE IF BelowCanvas(self, y) THEN [stop |-> TRUE, st |-> st]
        ELSE [stop |-> FALSE,
              st |-> WriteLine(self, y, start_x,
                               PoemOpen \o line \o PoemClose, 0,
                               [st EXCEPT !.placed =
                                   Append(@, [row |-> y,
                                              start |-> start_x,
                                              line |-> line])])]

\* the loop over the lines (lines 589-612) from index i on, break at the
\* first row beyond the canvas
RECURSIVE LineLoop(_, _, _, _, _)
LineLoop(self, poem_lines, spacing, i, st) ==
    IF i >= Len(poem_lines) \/ st.raised THEN st
    ELSE The({IF s.stop THEN s.st
              ELSE LineLoop(self, poem_lines, spacing, i + 1, s.st) :
              s \in {LineStep(self, poem_lines, spacing, i, st)}})

\* lines 575-581: [seed, lines], the lines to embed
Selected(self, poem_lines) ==
    IF Len(poem_lines) > 5
    THEN SelectLines(self.seed, poem_lines, Min(5, Len(poem_lines)), <<>>)
    ELSE [seed |-> self.seed, lines |-> poem_lines]

\* a spacing that counts the lines that are not blank
SpacingOfWritten(self, poem_lines) ==
    Max(3, self.height
           \div (Cardinality({i \in 1..Len(poem_lines) :
                                  ~IsBlank(poem_lines[i])}) + 2))

\* lines 585-586: spacing, from the number of lines after the selection
Spacing(self, poem_lines) == Max(3, self.height \div (Len(poem_lines) + 2))

\* lines 575-612, what embed_poem does past its first test: [self, st, lines]
EmbedLines(self, poem_lines) ==
    The({The({[self |-> Ended(self, st), st |-> st, lines |-> sel.lines] :
              st \in {LineLoop(self, sel.lines,
                               Spacing(self, sel.lines),
                               0, [Running(self) EXCEPT !.seed = sel.seed])}}) :
         sel \in {Selected(self, poem_lines)}})

\* an embed_poem that starts from a blank canvas, as draw_pattern does
EmbedPoemClearing(self, poem_lines) ==
    EmbedLines(ClearCanvas(self), poem_lines)

\* embed_poem(poem_lines): [self, st, lines], lines being poem_lines as it
\* stands after the selection
EmbedPoem(self, poem_lines) ==
    IF poem_lines = <<>>
    THEN [self |-> self, st |-> Running(self), lines |-> poem_lines]
    ELSE EmbedLines(self, poem_lines)

\* lines 621-626: the two picks among self.poems, [seed, lines]
RECURSIVE PickPoems(_, _, _, _)
PickPoems(seed, poems, n, selected) ==
    IF n <= 0 THEN [seed |-> seed, lines |-> selected]
    ELSE The({The({PickPoems(p.seed, poems, n - 1, sel) :
                   sel \in {IF /\ p.ret # None
                               /\ p.ret[1] # <<>>
                               /\ ~Contains(selected, p.ret[1])
                            THEN Append(selected, p.ret[1])
                            ELSE selected}}) :
              p \in {Pick(seed, poems)}})

\* self.draw_pattern() as generate_pattern calls it: dense is None, or the
\* density factor of the function main() puts in place of the method
\* (line 908)
CallDrawPattern(self, ucd, dense) ==
    IF dense = None THEN DrawPattern(self, ucd)
    ELSE DrawPatternDense(self, dense[1])

\* lines 619-629, after the draw that gave drawn: [self, st, lines], lines
\* being the lines embed_poem is called with, none when it is not called
Overlay(drawn, poem_lines) ==
    IF poem_lines = <<>> /\ drawn.poems # <<>>
    THEN The({IF sel.lines # <<>>
              THEN EmbedPoem([drawn EXCEPT !.seed = sel.seed], sel.lines)
              ELSE [self |-> [drawn EXCEPT !.seed = sel.seed],
                    st |-> Running(drawn), lines |-> <<>>] :
              sel \in {PickPoems(drawn.seed, drawn.poems, 2, <<>>)}})
    ELSE [self |-> drawn, st |-> Running(drawn), lines |-> <<>>]

\* generate_pattern(poem_lines), no lines being None or an empty list:
\* [self, st, lines]
GeneratePattern(self, poem_lines, ucd, dense) ==
    The({Overlay(d.self, poem_lines) :
         d \in {CallDrawPattern(self, ucd, dense)}})

\* pattern.pattern_chars = pattern._select_unicode_chars(count)
SetPalette(self, count, ucd) ==
    The({[self EXCEPT !.pattern_chars = chars.chars, !.seed = chars.seed] :
         chars \in {SelectUnicodeChars(self.seed, count, ucd)}})

---------------------------------------------------------------------------
(* One pattern instance driven through any sequence of operations *)

\* operations performed on an instance in one behaviour
MaxSteps == 2

\* the inputs of a behaviour
Sizes == {<<20, 10>>, <<9, 6>>, <<12, 16>>}
Seeds == {Some(42), Some(1234), None}
FileLineA == <<32, 97, 98, 10>>
FileLineB == <<99, 100, 10>>
\* a poems directory: a file with a theme line, an empty line, two lines
\* of verse and a blank one, a file that cannot be read and a file of two
\* lines
Corpus ==
    << [readable |-> TRUE,
        lines |-> <<<<116, 10>>, <<10>>, FileLineA, <<32, 10>>, FileLineB>>],
       [readable |-> FALSE, lines |-> <<>>],
       [readable |-> TRUE, lines |-> <<<<116, 10>>, FileLineA>>] >>
Environments ==
    {[clock |-> 1700000000, ucd |-> "ucd14", corpus |-> None],
     [clock |-> 1700000060, ucd |-> "all_control", corpus |-> Some(Corpus)]}
Densities == {5, 40}
PaletteSizes == {0, 1, 5}

LineA == <<97, 98>>
LineB == <<98>>
LineC == <<99, 32, 97>>
LineD == <<100>>
LineE == <<101, 101>>
LineF == <<102>>
LineBlank == <<32, 32>>
LineLong == <<97, 98, 99, 100, 101, 102, 103, 104, 105, 106>>
PoemInputs ==
    { <<>>,
      <<LineA>>,
      <<LineBlank, LineA, LineC>>,
      <<LineLong, LineB, LineA, LineA>>,
      <<LineA, LineB, LineC, LineD, LineE, LineF>>,
      <<LineA, LineA, LineBlank, LineB, <<>>, LineA, LineBlank, LineC>> }

\* the arguments of generate_pattern, and the draw_pattern it calls: the
\* method, or the dense one of main() with a density of 40 on a 20 x 10
\* canvas
GenerateInputs == {<<>>, <<LineA>>, <<LineA, LineB, LineC, LineD, LineE, LineF>>}
DrawCalls == {None, Some((40 * Scale) \div 200)}

\* an operation op, of arguments group, lines or count, has taken the
\* instance to r.self
Did(op, group, lines, count, r, selected) ==
    /\ steps' = steps + 1
    /\ pat' = r.self
    /\ last' = [last EXCEPT !.op = op, !.group = group, !.lines = lines,
                            !.count = count,
                            !.before = pat, !.writes = r.st.writes,
                            !.raised = r.st.raised, !.stamps = r.st.stamps,
                            !.placed = r.st.placed, !.under = r.st.under,
                            !.selected = selected]
    /\ UNCHANGED <<world, twin, rng, call, srv, run>>

Init ==
    \E size \in Sizes, seed \in Seeds, e \in Environments :
        /\ world = e
        /\ pat = New(size[1], size[2], seed, e)
        /\ last = [op |-> "new", group |-> "", lines |-> <<>>,
                   count |-> DefaultPaletteSize, before |-> pat,
                   writes |-> {}, raised |-> FALSE, stamps |-> 0,
                   placed |-> <<>>, selected |-> <<>>,
                   under |-> pat.canvas,
                   fresh |-> pat,
                   ctor |-> [width |-> size[1], height |-> size[2],
                             seed |-> seed]]
        /\ twin = <<>>
        /\ steps = 0
        /\ rng = 0
        /\ call = NoCall
        /\ srv = <<>>
        /\ run = <<>>

DoSetGroup ==
    /\ steps < MaxSteps
    /\ \E g \in Groups :
           \E self \in {SetGroup(pat, g)} :
               Did("set_rules", g, <<>>, 0,
                   [self |-> self, st |-> Running(self)], <<>>)

DoSetRandomGroup ==
    /\ steps < MaxSteps
    /\ \E self \in {SetRandomGroup(pat)} :
           Did("set_random_group", "", <<>>, 0,
               [self |-> self, st |-> Running(self)], <<>>)

DoSetPalette ==
    /\ steps < MaxSteps
    /\ \E n \in PaletteSizes :
           \E self \in {SetPalette(pat, n, world.ucd)} :
               Did("set_palette", "", <<>>, n,
                   [self |-> self, st |-> Running(self)], <<>>)

DoDrawPattern ==
    /\ steps < MaxSteps
    /\ \E r \in {DrawPattern(pat, world.ucd)} :
           Did("draw_pattern", "", <<>>, 0, r, <<>>)

DoDrawPatternDense ==
    /\ steps < MaxSteps
    /\ \E density \in Densities :
           \E r \in {DrawPatternDense(pat, (density * Scale)
                                        \div (pat.width * pat.height))} :
               Did("draw_pattern_dense", "", <<>>, 0, r, <<>>)

DoEmbedPoem ==
    /\ steps < MaxSteps
    /\ \E lines \in PoemInputs :
           \E r \in {EmbedPoem(pat, lines)} :
               Did("embed_poem", "", lines, 0, r, r.lines)

DoGeneratePattern ==
    /\ steps < MaxSteps
    /\ \E lines \in GenerateInputs, dense \in DrawCalls :
           \E r \in {GeneratePattern(pat, lines, world.ucd, dense)} :
               Did("generate_pattern", "", lines, 0, r, r.lines)

Next ==
    \/ DoSetGroup
    \/ DoSetRandomGroup
    \/ DoSetPalette
    \/ DoDrawPattern
    \/ DoDrawPatternDense
    \/ DoEmbedPoem
    \/ DoGeneratePattern

Spec == Init /\ [][Next]_vars

---------------------------------------------------------------------------
(* Two instances built from the same arguments in two runs of the program,
   driven through the same operations *)

\* the seconds between the two runs
ClockGap == 7

\* both instances have gone through the operation op, to r.self and t.self
PairDid(op, group, lines, r, t) ==
    /\ steps' = steps + 1
    /\ pat' = r.self
    /\ twin' = [pat |-> t.self]
    /\ last' = [last EXCEPT !.op = op, !.group = group, !.lines = lines,
                            !.before = pat, !.writes = r.st.writes,
                            !.raised = r.st.raised, !.stamps = r.st.stamps,
                            !.placed = r.st.placed, !.under = r.st.under,
                            !.selected = r.lines]
    /\ UNCHANGED <<world, rng, call, srv, run>>

PairInit ==
    \E size \in Sizes, seed \in Seeds, e \in Environments :
        /\ world = e
        /\ pat = New(size[1], size[2], seed, e)
        /\ twin = [pat |-> New(size[1], size[2], seed,
                               [e EXCEPT !.clock = @ + ClockGap])]
        /\ last = [op |-> "new", group |-> "", lines |-> <<>>,
                   count |-> DefaultPaletteSize, before |-> pat,
                   writes |-> {}, raised |-> FALSE, stamps |-> 0,
                   placed |-> <<>>, selected |-> <<>>,
                   under |-> pat.canvas,
                   fresh |-> pat,
                   ctor |-> [width |-> size[1], height |-> size[2],
                             seed |-> seed]]
        /\ steps = 0
        /\ rng = 0
        /\ call = NoCall
        /\ srv = <<>>
        /\ run = <<>>

PairSetGroup ==
    /\ steps < MaxSteps
    /\ \E g \in Groups :
           \E a \in {SetGroup(pat, g)}, b \in {SetGroup(twin.pat, g)} :
               PairDid("set_rules", g, <<>>,
                       [self |-> a, st |-> Running(a), lines |-> <<>>],
                       [self |-> b])

PairSetRandomGroup ==
    /\ steps < MaxSteps
    /\ \E a \in {SetRandomGroup(pat)}, b \in {SetRandomGroup(twin.pat)} :
           PairDid("set_random_group", "", <<>>,
                   [self |-> a, st |-> Running(a), lines |-> <<>>],
                   [self |-> b])

PairDrawPattern ==
    /\ steps < MaxSteps
    /\ \E r \in {DrawPattern(pat, world.ucd)},
          t \in {DrawPattern(twin.pat, world.ucd)} :
           PairDid("draw_pattern", "", <<>>,
                   [self |-> r.self, st |-> r.st, lines |-> <<>>], t)

PairEmbedPoem ==
    /\ steps < MaxSteps
    /\ \E lines \in PoemInputs :
           \E r \in {EmbedPoem(pat, lines)},
              t \in {EmbedPoem(twin.pat, lines)} :
               PairDid("embed_poem", "", lines, r, t)

PairNext ==
    \/ PairSetGroup
    \/ PairSetRandomGroup
    \/ PairDrawPattern
    \/ PairEmbedPoem

SpecPair == PairInit /\ [][PairNext]_vars

---------------------------------------------------------------------------
(* UnicodePatternServer: one shared instance regenerated on each request
   for /pattern *)

\* requests the clients send in one behaviour
MaxRequests == 2

Paths == {"/", "/pattern"}

\* the characters of the string a cell holds: a code point, or the
\* characters of an entry of glitch_chars
GlyphChars(g) ==
    IF g >= 0 THEN <<g>> ELSE [i \in 1..GlyphLen(g) |-> 4 * g - i]

\* ''.join(row)
RECURSIVE JoinRow(_)
JoinRow(row) ==
    IF row = <<>> THEN <<>> ELSE GlyphChars(Head(row)) \o JoinRow(Tail(row))

\* '\n'.join(rows) from row i on
RECURSIVE JoinRows(_, _)
JoinRows(canvas, i) ==
    IF i > Len(canvas) THEN <<>>
    ELSE IF i = Len(canvas) THEN JoinRow(canvas[i])
    ELSE JoinRow(canvas[i]) \o <<10>> \o JoinRows(canvas, i + 1)

\* to_text(): [text, raised]; joining a row that holds None raises
ToText(self) ==
    IF \E r \in 1..Len(self.canvas) : \E c \in 1..Len(self.canvas[r]) :
           self.canvas[r][c] = NoGlyph
    THEN [text |-> <<>>, raised |-> TRUE]
    ELSE [text |-> JoinRows(self.canvas, 1), raised |-> FALSE]

\* a server that hands each connection to a thread of its own
CanAcceptAlways(s) == TRUE

\* socketserver.TCPServer: serve_forever takes the next connection when
\* the handler of the one before has returned
CanAccept(s) == s.handling = {}

\* UnicodePatternServer(port, width, height, seed)
ServerInit ==
    \E size \in Sizes, seed \in Seeds, e \in Environments :
        /\ world = e
        /\ pat = New(size[1], size[2], seed, e)
        /\ srv = [arrived |-> 0, waiting |-> <<>>, handling |-> {},
                  responses |-> {}]
        /\ last = <<>>
        /\ twin = <<>>
        /\ steps = 0
        /\ rng = 0
        /\ call = NoCall
        /\ run = <<>>

\* a client connects and sends GET path
Request ==
    /\ srv.arrived < MaxRequests
    /\ \E path \in Paths :
           srv' = [srv EXCEPT
                     !.arrived = @ + 1,
                     !.waiting = Append(@, [id |-> srv.arrived + 1,
                                            path |-> path])]
    /\ UNCHANGED <<pat, world, twin, last, steps, rng, call, run>>

\* the server accepts the first connection waiting and enters do_GET
Accept ==
    /\ srv.waiting # <<>>
    /\ CanAccept(srv)
    /\ srv' = [srv EXCEPT
                 !.waiting = Tail(@),
                 !.handling = @ \cup {[id |-> Head(srv.waiting).id,
                                       path |-> Head(srv.waiting).path,
                                       pc |-> "do_GET",
                                       made |-> <<>>]}]
    /\ UNCHANGED <<pat, world, twin, last, steps, rng, call, run>>

\* the request h in a handler moves on as g
Moved(h, g) == srv' = [srv EXCEPT !.handling = (@ \ {h}) \cup {g}]

\* lines 722-729: the page is written
HandleIndex ==
    /\ \E h \in srv.handling :
           /\ h.pc = "do_GET"
           /\ h.path = "/"
           /\ srv' = [srv EXCEPT
                        !.handling = @ \ {h},
                        !.responses = @ \cup {[id |-> h.id, path |-> h.path]}]
    /\ UNCHANGED <<pat, world, twin, last, steps, rng, call, run>>

\* line 737
HandleSetRandomGroup ==
    /\ \E h \in srv.handling :
           /\ h.pc = "do_GET"
           /\ h.path = "/pattern"
           /\ \E self \in {SetRandomGroup(pat)} :
                  /\ pat' = self
                  /\ Moved(h, [h EXCEPT !.pc = "regrouped",
                                        !.made = [group |-> self.group]])
    /\ UNCHANGED <<world, twin, last, steps, rng, call, run>>

\* line 738
HandleGeneratePattern ==
    /\ \E h \in srv.handling :
           /\ h.pc = "regrouped"
           /\ \E r \in {GeneratePattern(pat, <<>>, world.ucd, None)} :
                  /\ pat' = r.self
                  /\ Moved(h, [h EXCEPT !.pc = "generated",
                                        !.made = [group |-> h.made.group,
                                                  canvas |-> r.self.canvas]])
    /\ UNCHANGED <<world, twin, last, steps, rng, call, run>>

\* lines 741-745: the snapshot is taken and written
HandleRespond ==
    /\ \E h \in srv.handling :
           /\ h.pc = "generated"
           /\ srv' = [srv EXCEPT
                        !.handling = @ \ {h},
                        !.responses = @ \cup
                            {[id |-> h.id, path |-> h.path,
                              pattern |-> ToText(pat).text,
                              group |-> pat.group,
                              made |-> h.made]}]
    /\ UNCHANGED <<pat, world, twin, last, steps, rng, call, run>>

ServerNext ==
    \/ Request
    \/ Accept
    \/ HandleIndex
    \/ HandleSetRandomGroup
    \/ HandleGeneratePattern
    \/ HandleRespond

SpecServer == ServerInit /\ [][ServerNext]_vars

---------------------------------------------------------------------------
(* draw_pattern and embed_poem one pass of their loops at a time, on an
   instance set to any of the groups *)

\* the passes draw_pattern makes on self: cells, instances, mirror signs
Passes(self) ==
    GridCount(self, self.x_spacing) * GridCount(self, self.y_spacing)
        * self.instances_per_step * Len(MirrorSigns(self))

LoopInit ==
    \E size \in Sizes, seed \in Seeds, e \in Environments, g \in Groups :
        /\ world = e
        /\ pat = SetGroup(New(size[1], size[2], seed, e), g)
        /\ run = [op |-> "idle"]
        /\ last = <<>>
        /\ twin = <<>>
        /\ srv = <<>>
        /\ steps = 0
        /\ rng = 0
        /\ call = NoCall

\* lines 491-500: draw_pattern up to its loops
StartDraw ==
    /\ run.op = "idle"
    /\ \E ready \in {EnsurePalette(ClearCanvas(pat), world.ucd)} :
           /\ pat' = ready
           /\ run' = [op |-> "draw_pattern", c |-> 0, k |-> 0,
                      x_count |-> GridCount(ready, ready.x_spacing),
                      y_count |-> GridCount(ready, ready.y_spacing),
                      pos |-> <<>>, final |-> <<>>, earlier |-> <<>>,
                      st |-> Running(ready), passes |-> 0]
    /\ UNCHANGED <<world, twin, last, steps, rng, call, srv>>

\* one pass of the innermost loop: pass k of cell c
DrawPass ==
    /\ run.op = "draw_pattern"
    /\ run.c < run.x_count * run.y_count
    /\ ~run.st.raised
    /\ LET n == Len(MirrorSigns(pat))
           total == pat.instances_per_step * n
       IN  IF total <= 0
           THEN run' = [run EXCEPT !.c = @ + 1]
           ELSE \E cell \in {CellStart(pat, run.x_count, run.y_count,
                                       run.c)} :
                \E s \in {Stamp(pat, cell.x, cell.y, run.k \div n,
                                MirrorSigns(pat)[(run.k % n) + 1],
                                cell.current_rotation,
                                IF run.k = 0 THEN cell.pos ELSE run.pos,
                                run.st)} :
                    run' = [run EXCEPT
                              !.st = s.st, !.pos = s.pos,
                              !.final = s.final, !.earlier = run.final,
                              !.passes = @ + 1,
                              !.k = IF run.k + 1 = total THEN 0 ELSE @ + 1,
                              !.c = IF run.k + 1 = total THEN @ + 1 ELSE @]
    /\ UNCHANGED <<pat, world, twin, last, steps, rng, call, srv>>

\* the loops of draw_pattern are over
DrawEnd ==
    /\ run.op = "draw_pattern"
    /\ run.c >= run.x_count * run.y_count \/ run.st.raised
    /\ pat' = Ended(pat, run.st)
    /\ run' = [op |-> "done", of |-> "draw_pattern", passes |-> run.passes,
               raised |-> run.st.raised]
    /\ UNCHANGED <<world, twin, last, steps, rng, call, srv>>

\* lines 572-587: embed_poem(lines) up to its loop
StartEmbed ==
    /\ run.op = "idle"
    /\ \E lines \in PoemInputs :
           IF lines = <<>>
           THEN /\ run' = [op |-> "done", of |-> "embed_poem", passes |-> 0,
                           raised |-> FALSE]
                /\ pat' = pat
           ELSE \E sel \in {Selected(pat, lines)} :
                    /\ run' = [op |-> "embed_poem", i |-> 0,
                               lines |-> sel.lines,
                               spacing |-> Spacing(pat, sel.lines),
                               stop |-> FALSE,
                               st |-> [Running(pat) EXCEPT !.seed = sel.seed],
                               passes |-> 0]
                    /\ pat' = pat
    /\ UNCHANGED <<world, twin, last, steps, rng, call, srv>>

\* one pass of the loop over the lines
EmbedPass ==
    /\ run.op = "embed_poem"
    /\ run.i < Len(run.lines)
    /\ ~run.stop
    /\ ~run.st.raised
    /\ \E s \in {LineStep(pat, run.lines, run.spacing, run.i, run.st)} :
           run' = [run EXCEPT !.st = s.st, !.stop = s.stop, !.i = @ + 1,
                              !.passes = @ + 1]
    /\ UNCHANGED <<pat, world, twin, last, steps, rng, call, srv>>

\* the loop of embed_poem is over
EmbedEnd ==
    /\ run.op = "embed_poem"
    /\ run.i >= Len(run.lines) \/ run.stop \/ run.st.raised
    /\ pat' = Ended(pat, run.st)
    /\ run' = [op |-> "done", of |-> "embed_poem", passes |-> run.passes,
               raised |-> run.st.raised]
    /\ UNCHANGED <<world, twin, last, steps, rng, call, srv>>

LoopNext ==
    \/ StartDraw
    \/ DrawPass
    \/ DrawEnd
    \/ StartEmbed
    \/ EmbedPass
    \/ EmbedEnd

\* the interpreter goes on executing the operation it is in
SpecLoops == LoopInit /\ [][LoopNext]_vars /\ WF_vars(LoopNext)

---------------------------------------------------------------------------
(* The stand-alone generator: any sequence of calls on any seed *)

RngSeeds == {0, 1, 42, 681, 1234, RngM - 1, RngM, 1700000000}
RngSpreads == {-5, -1, 0, 1, 2, 3, 7, 17}
RngLists == {<<>>, <<11>>, <<11, 12>>, <<11, 12, 13>>, <<5, 5, 6, 7, 8>>}
RngFloats == {0, Scale \div 5, Scale, 3 * Scale}

Called(op, a, b, arr, r) ==
    /\ steps < MaxRngSteps
    /\ steps' = steps + 1
    /\ call' = [op |-> op, a |-> a, b |-> b, arr |-> arr, before |-> rng,
                ret |-> Some(r.ret), raised |-> r.raised]
    /\ rng' = r.seed
    /\ UNCHANGED <<pat, world, twin, last, srv, run>>

RngInit ==
    /\ rng \in RngSeeds
    /\ call = NoCall
    /\ steps = 0
    /\ pat = <<>>
    /\ world = <<>>
    /\ twin = <<>>
    /\ last = <<>>
    /\ srv = <<>>
    /\ run = <<>>

RngRandom ==
    Called("random", 0, 0, <<>>,
           [seed |-> Random(rng), ret |-> Random(rng), raised |-> FALSE])

RngRandomInt ==
    \E spread \in RngSpreads :
        Called("random_int", spread, 0, <<>>, RandomInt(rng, spread))

RngRandomRange ==
    \E lo \in RngSpreads, hi \in RngSpreads :
        Called("random_range", lo, hi, <<>>, RandomRange(rng, lo, hi))

RngRandomFloat ==
    Called("random_float", 0, 0, <<>>, RandomFloat(rng))

RngRandomFloatRange ==
    \E lo \in RngFloats, hi \in RngFloats :
        Called("random_float_range", lo, hi, <<>>,
               RandomFloatRange(rng, lo, hi))

\* pick returns an optional value as it is
RngPick ==
    \E arr \in RngLists :
        /\ steps < MaxRngSteps
        /\ steps' = steps + 1
        /\ LET r == Pick(rng, arr)
           IN  /\ call' = [op |-> "pick", a |-> 0, b |-> 0, arr |-> arr,
                           before |-> rng, ret |-> r.ret, raised |-> r.raised]
               /\ rng' = r.seed
        /\ UNCHANGED <<pat, world, twin, last, srv, run>>

RngNext ==
    \/ RngRandom
    \/ RngRandomInt
    \/ RngRandomRange
    \/ RngRandomFloat
    \/ RngRandomFloatRange
    \/ RngPick

SpecRng == RngInit /\ [][RngNext]_vars

---------------------------------------------------------------------------
(* Claims about DeterministicRNG, checked under SpecRng *)

\* (a * s) mod m by the binary expansion of a: the product written out,
\* independently of the decomposition MulA uses.
RECURSIVE TimesMod(_, _)
TimesMod(a, s) ==
    IF a = 0 THEN 0
    ELSE (((2 * TimesMod(a \div 2, s)) % RngM) + ((a % 2) * s)) % RngM

LcgStep(s) == (TimesMod(RngA, s % RngM) + (RngC % RngM)) % RngM

\* C2: random() sets the seed to (1664525*seed + 1013904223) mod 982451497
\* and returns the new seed; from seed 1234 the first call gives 120573582.
C2_RandomFormula ==
    call.op = "random" =>
        /\ rng = LcgStep(call.before)
        /\ call.ret = Some(rng)
        /\ (call.before = 1234 /\ steps = 1) => rng = 120573582

C2_Witness ==
    /\ call.op = "random"
    /\ call.before = 1234
    /\ steps = 1
    /\ call.ret = Some(120573582)

\* C3: degenerate inputs never raise: random_int(spread) is 0 for every
\* spread <= 0, and pick of an empty list is None.
C3_DegenerateInputs ==
    /\ ~call.raised
    /\ (call.op = "random_int" /\ call.a <= 0) => call.ret = Some(0)
    /\ (call.op = "pick" /\ call.arr = <<>>) => call.ret = None

C3_Witness ==
    /\ call.op = "random_int"
    /\ call.a = 0
    /\ call.ret = Some(0)
    /\ ~call.raised

DerivedOps ==
    {"random_int", "random_range", "random_float", "random_float_range",
     "pick"}

\* the calls that return before drawing: spread <= 0, an empty range, an
\* empty list
Degenerate ==
    \/ call.op = "random_int" /\ call.a <= 0
    \/ call.op = "random_range" /\ call.b - call.a + 1 <= 0
    \/ call.op = "pick" /\ call.arr = <<>>

\* C4 as stated: every derived operation advances the seed by exactly one
\* step of random(), for every input, spread <= 0 and the empty list included.
C4_AlwaysOneStep ==
    call.op \in DerivedOps => rng = LcgStep(call.before)

\* C4 as amended: a derived operation advances the seed by exactly one step
\* of random(), except that random_int with spread <= 0 (hence random_range
\* with max < min) and pick of an empty list leave the seed unchanged.
C4_OneStepUnlessDegenerate ==
    call.op \in DerivedOps =>
        IF Degenerate THEN rng = call.before
        ELSE rng = LcgStep(call.before)

C4_Witness ==
    /\ call.op = "pick"
    /\ call.arr # <<>>
    /\ rng = LcgStep(call.before)
    /\ rng # call.before

Elements(arr) == {arr[i] : i \in 1..Len(arr)}

\* C5: random_int(spread) with spread > 0 is in 0..spread-1, random_range
\* (lo, hi) with lo <= hi is in lo..hi, and pick of a non-empty list is one
\* of its elements.
C5_Ranges ==
    /\ (call.op = "random_int" /\ call.a > 0) =>
           call.ret[1] \in 0..(call.a - 1)
    /\ (call.op = "random_range" /\ call.a <= call.b) =>
           call.ret[1] \in call.a..call.b
    /\ (call.op = "pick" /\ call.arr # <<>>) =>
           /\ Len(call.ret) = 1
           /\ call.ret[1] \in Elements(call.arr)

C5_Witness ==
    /\ call.op = "random_range"
    /\ call.a < call.b
    /\ call.ret[1] = call.b

\* some cell of the canvas holds a glyph
Inked(canvas) ==
    \E r \in 1..Len(canvas) : \E c \in 1..Len(canvas[r]) :
        canvas[r][c] # Blank

\* C1: two instances constructed with the same width, height and explicit
\* seed, in two runs of the program, and driven through the same operations
\* (_set_rules, set_random_group, draw_pattern, embed_poem with the same
\* lines) have the same group, the same seed and the same canvas after every
\* step.
C1_Determinism ==
    last.ctor.seed # None =>
        /\ pat.group = twin.pat.group
        /\ pat.seed = twin.pat.seed
        /\ pat.canvas = twin.pat.canvas

\* an explicit seed, a draw and then an embed_poem that selects among more
\* than five lines, on both instances
C1_Witness ==
    /\ last.ctor.seed # None
    /\ steps = 2
    /\ last.op = "embed_poem"
    /\ Len(last.lines) > 5
    /\ Inked(last.before.canvas)
    /\ last.placed # <<>>
    /\ pat.canvas = twin.pat.canvas

\* C6: every canvas write of draw_pattern, _draw_pattern_dense and
\* embed_poem, whatever the group, targets a row in 0..height-1 and a column
\* in 0..width-1, and no operation raises for an index out of range.
C6_WritesInBounds ==
    last.op \in {"draw_pattern", "draw_pattern_dense", "embed_poem"} =>
        /\ ~last.raised
        /\ \A w \in last.writes :
               /\ 0 <= w[1] /\ w[1] < pat.height
               /\ 0 <= w[2] /\ w[2] < pat.width

\* an embed_poem that writes up to the last column and stops at a line
\* whose row would be the height of the canvas
C6_Witness ==
    /\ last.op = "embed_poem"
    /\ \E w \in last.writes : w[2] = pat.width - 1
    /\ \E i \in 1..Len(last.selected) :
           /\ ~IsBlank(last.selected[i])
           /\ i * Max(3, pat.height \div (Len(last.selected) + 2)) = pat.height

\* C7: the rule fields after _set_rules(g1) followed by _set_rules(g2) are
\* those after _set_rules(g2) alone on the instance as constructed, for
\* every g1 and g2 of the 17 groups: no value set by g1 survives.
C7_GroupSwitchIsolation ==
    last.op = "set_rules" =>
        Rules(pat) = Rules(SetRules(last.fresh, last.group))

\* _set_rules("p1") has changed the rules and _set_rules("p6m") follows
C7_Witness ==
    /\ last.op = "set_rules"
    /\ last.group = "p6m"
    /\ last.before.group = "p1"
    /\ last.fresh.group # "p1"
    /\ Rules(last.before) # Rules(last.fresh)
    /\ Rules(last.before) # Rules(pat)

\* C8: after draw_pattern or _draw_pattern_dense every non-blank cell of the
\* canvas was written during that call: nothing of an earlier draw or of an
\* earlier embed_poem survives.
C8_DrawStartsBlank ==
    last.op \in {"draw_pattern", "draw_pattern_dense"} =>
        \A r \in 1..Len(pat.canvas) : \A c \in 1..Len(pat.canvas[r]) :
            pat.canvas[r][c] # Blank => <<r - 1, c - 1>> \in last.writes

\* a draw_pattern over a canvas that held a glyph in a cell this call did
\* not write
C8_Witness ==
    /\ last.op = "draw_pattern"
    /\ last.stamps > 0
    /\ \E r \in 1..Len(pat.canvas) : \E c \in 1..Len(pat.canvas[r]) :
           /\ last.before.canvas[r][c] # Blank
           /\ <<r - 1, c - 1>> \notin last.writes
           /\ pat.canvas[r][c] = Blank

\* C9: embed_poem with no lines leaves the canvas, the seed and every rule
\* field as they were.
C9_EmbedNothing ==
    (last.op = "embed_poem" /\ last.lines = <<>>) =>
        /\ pat.canvas = last.before.canvas
        /\ pat.seed = last.before.seed
        /\ Rules(pat) = Rules(last.before)

\* embed_poem with no lines on a canvas that holds glyphs
C9_Witness ==
    /\ last.op = "embed_poem"
    /\ last.lines = <<>>
    /\ Inked(last.before.canvas)
    /\ pat.canvas = last.before.canvas

\* C10: given more than 5 lines, embed_poem goes on with at most 5 lines,
\* pairwise distinct, none blank, each one of the lines given, and places
\* only such lines.
C10_Selection ==
    (last.op = "embed_poem" /\ Len(last.lines) > 5) =>
        /\ Len(last.selected) <= 5
        /\ \A i, j \in 1..Len(last.selected) :
               i # j => last.selected[i] # last.selected[j]
        /\ \A i \in 1..Len(last.selected) :
               /\ ~IsBlank(last.selected[i])
               /\ Contains(last.lines, last.selected[i])
        /\ \A i \in 1..Len(last.placed) :
               Contains(last.selected, last.placed[i].line)

\* a selection among eight lines with blank lines and duplicates, which
\* keeps fewer than five
C10_Witness ==
    /\ last.op = "embed_poem"
    /\ Len(last.lines) = 8
    /\ Len(last.selected) \in 2..4
    /\ last.placed # <<>>


\* the glyphs of the curated list, and the code points the blocks can give
Curated == {Glitch(k) : k \in 1..GlitchCount}

FromBlocks ==
    UNION {PriorityBlocks[i][1]..Min(PriorityBlocks[i][2],
                                     PriorityBlocks[i][1] + 50) :
           i \in 1..Len(PriorityBlocks)}

\* C11: _select_unicode_chars(N) gives exactly N glyphs, for N = 0 as for
\* the 100 of the constructor, each a curated glyph or a code point of a
\* priority block, and only curated glyphs when every code point drawn is
\* of a C category.
C11_PaletteSize ==
    last.op \in {"new", "set_palette"} =>
        /\ ~last.raised
        /\ Len(pat.pattern_chars) = last.count
        /\ Elements(pat.pattern_chars) \subseteq Curated \cup FromBlocks
        /\ world.ucd = "all_control" =>
               Elements(pat.pattern_chars) \subseteq Curated

\* a palette of 5 built when every code point drawn is of a C category
C11_Witness ==
    /\ last.op = "set_palette"
    /\ last.count = 5
    /\ world.ucd = "all_control"
    /\ Len(pat.pattern_chars) = 5
    /\ pat.seed # last.before.seed

\* the glyphs the canvas holds
CanvasGlyphs(canvas) ==
    {canvas[r][c] : r \in 1..Len(canvas), c \in 1..Len(canvas[1])}
        \ {Blank}

\* C12: draw_pattern called with an empty palette rebuilds it to 100 glyphs
\* before stamping and does not raise; every glyph a draw_pattern leaves on
\* the canvas is one of the palette or the default block glyph.
C12_EmptyPaletteRebuilt ==
    last.op = "draw_pattern" =>
        /\ ~last.raised
        /\ last.before.pattern_chars = <<>> =>
               Len(pat.pattern_chars) = DefaultPaletteSize
        /\ last.before.pattern_chars # <<>> =>
               pat.pattern_chars = last.before.pattern_chars
        /\ CanvasGlyphs(pat.canvas) \subseteq
               Elements(pat.pattern_chars) \cup {Glitch(1)}

\* a draw_pattern on an empty palette that stamps glyphs
C12_Witness ==
    /\ last.op = "draw_pattern"
    /\ last.before.pattern_chars = <<>>
    /\ last.stamps > 0
    /\ CanvasGlyphs(pat.canvas) # {}

\* generate_pattern was called without lines and without a corpus
NoLinesNoCorpus ==
    /\ last.op = "generate_pattern"
    /\ last.lines = <<>>
    /\ world.corpus = None

\* C13 as claimed: without a corpus and without lines the overlay step is
\* skipped, and the canvas is the one draw_pattern produced.
C13_OverlaySkipped ==
    NoLinesNoCorpus =>
        /\ last.selected = <<>>
        /\ last.writes = {}
        /\ pat.canvas = last.under

\* C13 as amended: without a corpus and without lines, generate_pattern
\* embeds one or two distinct lines of the built-in default lines over the
\* canvas draw_pattern produced, does not raise, and leaves a cell the
\* overlay does not write as draw_pattern left it.
C13_DefaultLinesOverlaid ==
    NoLinesNoCorpus =>
        /\ ~last.raised
        /\ Len(last.selected) \in 1..2
        /\ \A i, j \in 1..Len(last.selected) :
               i # j => last.selected[i] # last.selected[j]
        /\ Elements(last.selected) \subseteq Elements(DefaultPoems)
        /\ \A r \in 1..Len(pat.canvas) : \A c \in 1..Len(pat.canvas[r]) :
               <<r - 1, c - 1>> \notin last.writes =>
                   pat.canvas[r][c] = last.under[r][c]

\* two default lines picked and written over the drawn canvas
C13_Witness ==
    /\ NoLinesNoCorpus
    /\ Len(last.selected) = 2
    /\ last.writes # {}
    /\ pat.canvas # last.under

\* C14: generate_pattern called with lines draws and then calls embed_poem
\* with those lines (five lines or fewer are embedded as given).
C14_SuppliedLinesEmbedded ==
    (last.op = "generate_pattern" /\ last.lines # <<>>) =>
        /\ last.selected # <<>>
        /\ Len(last.lines) <= 5 => last.selected = last.lines

\* the cells of the canvas that hold a glyph
InkedCells(canvas) ==
    {rc \in (1..Len(canvas)) \X (1..Len(canvas[1])) :
        canvas[rc[1]][rc[2]] # Blank}

\* draw_pattern has run on the 20 x 10 instance of seed 42 set to p1
DrawnP1 ==
    /\ last.op = "draw_pattern"
    /\ last.ctor = [width |-> 20, height |-> 10, seed |-> Some(42)]
    /\ pat.group = "p1"

\* C15 as claimed: with width 20, height 10, seed 42 and group p1, one
\* draw_pattern leaves a 10 x 20 canvas without a blank cell.
C15_EveryCellInked ==
    DrawnP1 =>
        /\ Len(pat.canvas) = 10
        /\ \A r \in 1..10 : Len(pat.canvas[r]) = 20
        /\ Cardinality(InkedCells(pat.canvas)) = 200

\* C15 as amended: with width 20, height 10, seed 42 and group p1, one
\* draw_pattern leaves a canvas of 10 rows of 20 cells on which it has
\* stored 6 glyphs, one for each cell of its 3 x 2 lattice: between 1 and 6
\* cells hold a glyph, all of the palette, and every other cell is blank.
C15_SixStamps ==
    DrawnP1 =>
        /\ Len(pat.canvas) = 10
        /\ \A r \in 1..10 : Len(pat.canvas[r]) = 20
        /\ last.stamps = 6
        /\ Cardinality(InkedCells(pat.canvas)) \in 1..6
        /\ CanvasGlyphs(pat.canvas) \subseteq Elements(pat.pattern_chars)

\* that draw, right after the group was set
C15_Witness ==
    /\ DrawnP1
    /\ steps = 2
    /\ last.before.group = "p1"
    /\ Cardinality(InkedCells(pat.canvas)) >= 2

\* C16: the server handles one request at a time: while a request is in
\* its handler no other request is, so the set_random_group and
\* generate_pattern of two requests never interleave, and the pattern and
\* group a request answers with are those its own regeneration made.
C16_Serialized ==
    /\ Cardinality(srv.handling) <= 1
    /\ \A h \in srv.handling :
           /\ h.pc = "regrouped" => pat.group = h.made.group
           /\ h.pc = "generated" =>
                  pat.group = h.made.group /\ pat.canvas = h.made.canvas
    /\ \A a \in srv.responses :
           a.path = "/pattern" =>
               /\ a.group = a.made.group
               /\ a.pattern = JoinRows(a.made.canvas, 1)

\* a request for /pattern waits while another is between its
\* set_random_group and its generate_pattern
C16_Witness ==
    /\ \E h \in srv.handling : h.pc = "regrouped"
    /\ srv.waiting # <<>>
    /\ Head(srv.waiting).path = "/pattern"

\* the spacings and the instance count of the group are positive, and a
\* draw_pattern in progress has made no more passes than its loops allow
PositiveRules ==
    /\ pat.x_spacing > 0
    /\ pat.y_spacing > 0
    /\ pat.instances_per_step > 0
    /\ run.op = "draw_pattern" => run.passes <= Passes(pat)
    /\ run.op = "embed_poem" => run.passes <= Len(run.lines)
    /\ (run.op = "done" /\ run.of = "draw_pattern") =>
           ~run.raised /\ run.passes = Passes(pat)

\* C17: for each of the 17 groups x_spacing, y_spacing and
\* instances_per_step are positive, so that no step divides by zero, and
\* draw_pattern, as embed_poem on any list of lines, comes to its end: a
\* draw_pattern after as many passes as its lattice has cells, instances
\* and mirror signs.
C17_Terminates == []PositiveRules /\ <>(run.op = "done")

\* a draw_pattern of p6m at its end, after 48 passes
C17_Witness ==
    /\ run.op = "done"
    /\ run.of = "draw_pattern"
    /\ pat.group = "p6m"
    /\ run.passes = 48

\* the flip flags of an instance that are set
FlipFlags(self) ==
    {f \in {"x_flip", "y_flip", "y_flip_pairs", "y_flip_rows"} : self[f]}

\* C18: with the group pm, pmm, pg, pmg, cmm or pgg selected, the flip
\* flags that are set are exactly x_flip for pm; x_flip and y_flip_rows for
\* pmm; y_flip for pg; x_flip and y_flip_pairs for pmg; x_flip, y_flip_pairs
\* and y_flip_rows for cmm; y_flip for pgg, whose row_rotate_rule is pi.
C18_FlipFlags ==
    /\ pat.group = "pm" => FlipFlags(pat) = {"x_flip"}
    /\ pat.group = "pmm" => FlipFlags(pat) = {"x_flip", "y_flip_rows"}
    /\ pat.group = "pg" => FlipFlags(pat) = {"y_flip"}
    /\ pat.group = "pmg" => FlipFlags(pat) = {"x_flip", "y_flip_pairs"}
    /\ pat.group = "cmm" =>
           FlipFlags(pat) = {"x_flip", "y_flip_pairs", "y_flip_rows"}
    /\ pat.group = "pgg" =>
           FlipFlags(pat) = {"y_flip"} /\ pat.row_rotate_rule = Turn \div 2

\* pgg is selected after cmm, which sets the three flags pgg does not
C18_Witness ==
    /\ last.op = "set_rules"
    /\ last.group = "pgg"
    /\ pat.group = "pgg"
    /\ last.before.group = "cmm"
    /\ FlipFlags(last.before) = {"x_flip", "y_flip_pairs", "y_flip_rows"}

\* the default rule record with x_spacing halved and a shear of 1.0
CmListed(self) ==
    The({[d EXCEPT !.x_spacing = d.x_spacing \div 2, !.shear = Scale] :
         d \in {Rules(SetDefaults(self))}})

\* C19 as stated: for cm the rule record is the default record with
\* x_spacing halved and shear 1.0, and nothing else differs: no flip flag.
C19_CmNoFlip == pat.group = "cm" => Rules(pat) = CmListed(pat)

\* C19, amended: for cm the rule record is the default record with
\* x_spacing halved, shear 1.0 and x_flip set; nothing else differs.
C19_CmXFlip ==
    pat.group = "cm" => Rules(pat) = [CmListed(pat) EXCEPT !.x_flip = TRUE]

\* cm is selected after p6m, with which it shares no changed field but
\* polygon_sides
C19_Witness ==
    /\ last.op = "set_rules"
    /\ last.group = "cm"
    /\ pat.group = "cm"
    /\ last.before.group = "p6m"
    /\ pat.x_flip
    /\ pat.x_spacing = 8 * Scale

\* the groups whose y_spacing is set as that of p3
P3Family == {"p3", "p3m1", "p31m", "p6", "p6m"}

\* y_spacing / x_spacing of an instance, in thousandths
SpacingRatio(self) == (self.y_spacing * 1000) \div self.x_spacing

\* C20 as stated: p3, p3m1, p31m, p6 and p6m have x_spacing = 2 * 16 and
\* the y_spacing of p1 and p2, 16 * sqrt(3/4), so that the squares of
\* y_spacing and x_spacing are as 3 to 16.
C20_SameAsP1 ==
    pat.group \in P3Family =>
        /\ pat.x_spacing = 2 * 16 * Scale
        /\ pat.y_spacing = SetRules(pat, "p1").y_spacing
        /\ 16 * SpacingRatio(pat) * SpacingRatio(pat) \in 2990000..3010000

\* C20, amended: p3, p3m1, p31m, p6 and p6m have x_spacing = 2 * 16 and
\* y_spacing = sqrt(3/4) * x_spacing, twice the y_spacing of p1 and p2, so
\* that the squares of y_spacing and x_spacing are as 3 to 4.
C20_HexRows ==
    pat.group \in P3Family =>
        /\ pat.x_spacing = 2 * 16 * Scale
        /\ pat.y_spacing - 2 * SetRules(pat, "p1").y_spacing \in 0..1
        /\ 4 * SpacingRatio(pat) * SpacingRatio(pat) \in 2990000..3010000

\* p3 is selected after p1: y_spacing is above 27 where p1 has 13.86
C20_Witness ==
    /\ last.op = "set_rules"
    /\ last.group = "p3"
    /\ pat.group = "p3"
    /\ last.before.group = "p1"
    /\ Trunc(pat.y_spacing) = 27
    /\ Trunc(last.before.y_spacing) = 13

\* <<instances_per_step, mirror_instances>> as listed for each group
ListedInstances(group) ==
    CASE group = "p4" -> <<4, FALSE>>
      [] group = "p4m" -> <<4, TRUE>>
      [] group = "p4g" -> <<2, TRUE>>
      [] group = "p3" -> <<3, FALSE>>
      [] group \in {"p3m1", "p31m"} -> <<3, TRUE>>
      [] group = "p6" -> <<6, FALSE>>
      [] group = "p6m" -> <<6, TRUE>>
      [] OTHER -> <<1, FALSE>>

\* C21: with a group selected, instances_per_step and mirror_instances are
\* 4, false for p4; 4, true for p4m; 2, true for p4g; 3, false for p3;
\* 3, true for p3m1 and p31m; 6, false for p6; 6, true for p6m; 1, false
\* for the nine other groups: instances_per_step is 1 at least.
C21_Instances ==
    /\ pat.group \in Groups
    /\ <<pat.instances_per_step, pat.mirror_instances>>
           = ListedInstances(pat.group)
    /\ pat.instances_per_step >= 1

\* pg, one of the nine, is selected after p6m, which has 6 and true
C21_Witness ==
    /\ last.op = "set_rules"
    /\ last.group = "pg"
    /\ pat.group = "pg"
    /\ last.before.group = "p6m"
    /\ last.before.instances_per_step = 6
    /\ last.before.mirror_instances

\* the whole number of spacings that fit in the height of the canvas
WholeIn(self, spacing) ==
    CHOOSE n \in 0..self.height :
        n * spacing <= self.height * Scale /\ self.height * Scale < (n + 1) * spacing

\* the least whole number of spacings that cover the height of the canvas
CoverOf(self, spacing) ==
    CHOOSE n \in 0..self.height :
        (n - 1) * spacing < self.height * Scale /\ self.height * Scale <= n * spacing

\* C22 as stated: draw_pattern iterates ceil(height / x_spacing) + 2 columns
\* by ceil(height / y_spacing) + 2 rows.
C22_CeilGrid ==
    run.op = "draw_pattern" =>
        /\ run.x_count = CoverOf(pat, pat.x_spacing) + 2
        /\ run.y_count = CoverOf(pat, pat.y_spacing) + 2

\* C22, amended: draw_pattern iterates floor(height / x_spacing) + 2 columns
\* by floor(height / y_spacing) + 2 rows, both sized from the height of the
\* canvas, and has gone through each cell of that grid when it ends.
C22_FloorGrid ==
    /\ run.op = "draw_pattern" =>
           /\ run.x_count = WholeIn(pat, pat.x_spacing) + 2
           /\ run.y_count = WholeIn(pat, pat.y_spacing) + 2
           /\ run.c <= run.x_count * run.y_count
    /\ (run.op = "done" /\ run.of = "draw_pattern") =>
           run.passes = (WholeIn(pat, pat.x_spacing) + 2)
                            * (WholeIn(pat, pat.y_spacing) + 2)
                            * pat.instances_per_step * Len(MirrorSigns(pat))

\* pm on a canvas of height 10, x_spacing 8 and y_spacing 16: 3 columns by
\* 2 rows were gone through, where the ceilings make 4 by 3
C22_Witness ==
    /\ run.op = "done"
    /\ run.of = "draw_pattern"
    /\ pat.group = "pm"
    /\ pat.height = 10
    /\ run.passes = 6
    /\ (CoverOf(pat, pat.x_spacing) + 2) * (CoverOf(pat, pat.y_spacing) + 2) = 12

\* the leftmost column the last operation wrote in row y
LeftmostWrite(y) ==
    CHOOSE x \in 0..pat.width :
        /\ x < pat.width => <<y, x>> \in last.writes
        /\ \A x2 \in 0..(x - 1) : <<y, x2>> \notin last.writes

\* C23 as stated: the starting column of a line is
\* max(0, (width - len(marked_line)) // 2), marked_line being the line
\* between '<poem>' and '</poem>': the text as written is centred.
C23_MarkedCentred ==
    last.op = "embed_poem" =>
        \A k \in 1..Len(last.placed) :
            LeftmostWrite(last.placed[k].row)
                = Max(0, (pat.width - (Len(last.placed[k].line) + 13)) \div 2)

\* C23, amended: the starting column of a line is
\* max(0, (width - len(line)) // 2), line being the line before it is wrapped
\* in '<poem>' and '</poem>'; the wrapped line is written from that column,
\* its '<' first.
C23_LineCentred ==
    last.op = "embed_poem" =>
        \A k \in 1..Len(last.placed) :
            LET start == Max(0, (pat.width - Len(last.placed[k].line)) \div 2)
            IN  /\ LeftmostWrite(last.placed[k].row) = start
                /\ pat.canvas[last.placed[k].row + 1][start + 1] = PoemOpen[1]

\* 'ab' was written on a canvas 20 wide from column 9, where a centred
\* '<poem>ab</poem>' starts at column 2
C23_Witness ==
    /\ last.op = "embed_poem"
    /\ pat.width = 20
    /\ \E k \in 1..Len(last.placed) :
           /\ last.placed[k].line = LineA
           /\ LeftmostWrite(last.placed[k].row) = 9
           /\ <<last.placed[k].row, 2>> \notin last.writes

\* the cell a pass of draw_pattern is about, and the position it starts from
PassCell == CellStart(pat, run.x_count, run.y_count, run.c)
PassFrom == IF run.k = 0 THEN PassCell.pos ELSE run.pos

\* a step that is one pass of the innermost loop of draw_pattern
IsDrawPass ==
    /\ run.op = "draw_pattern"
    /\ run'.op = "draw_pattern"
    /\ run'.passes = run.passes + 1

\* the stamp of the pass is flipped vertically by one of the three rules
PassFlippedY ==
    \/ pat.y_flip /\ PassCell.x % 2 = 0
    \/ pat.y_flip_pairs /\ (PassCell.x \div 2) % 2 = 0
    \/ pat.y_flip_rows /\ PassCell.y % 2 = 0

\* C24 as stated: pos_y is shifted by one y_spacing only for a stamp flipped
\* by the y_flip_rows rule on an even row; a stamp flipped by y_flip or
\* y_flip_pairs on an odd row is not shifted, in cmm as in every group.
C24_ShiftOnEvenRowsOnly ==
    [][IsDrawPass =>
           run'.pos[2] - PassFrom[2]
               = IF pat.y_flip_rows /\ PassCell.y % 2 = 0
                 THEN pat.y_spacing ELSE 0]_vars

\* C24, amended: pos_y is shifted by one y_spacing for each stamp that is
\* flipped vertically, by whichever of the three rules, in a group whose
\* y_flip_rows flag is set, and for no other stamp: in cmm a stamp on an odd
\* row that y_flip_pairs flips is shifted as well.
C24_ShiftWhenFlagSet ==
    [][IsDrawPass =>
           run'.pos[2] - PassFrom[2]
               = IF PassFlippedY /\ pat.y_flip_rows
                 THEN pat.y_spacing ELSE 0]_vars

\* cmm: the stamp of a cell in an odd row and a column of an even pair has
\* been made, and pos_y is one y_spacing further than where the cell began
C24_Witness ==
    /\ run.op = "draw_pattern"
    /\ pat.group = "cmm"
    /\ run.c > 0
    /\ LET cell == CellStart(pat, run.x_count, run.y_count, run.c - 1)
       IN  /\ cell.y % 2 = 1
           /\ (cell.x \div 2) % 2 = 0
           /\ run.pos[2] = cell.pos[2] + pat.y_spacing

\* the row of line i (from 1) of the lines embed_poem went on with, and the
\* line as written; line i is written when it is not blank and its row is
\* on the canvas
RowOf(i) == i * Max(3, pat.height \div (Len(last.selected) + 2))
Marked(i) == PoemOpen \o last.selected[i] \o PoemClose
StartOf(i) == Max(0, (pat.width - Len(last.selected[i])) \div 2)
IsWritten(i) == ~IsBlank(last.selected[i]) /\ RowOf(i) < pat.height

\* the lines whose text covers the cell of row r and column c, from 0
Covering(r, c) ==
    {i \in 1..Len(last.selected) :
        /\ IsWritten(i)
        /\ r = RowOf(i)
        /\ StartOf(i) <= c
        /\ c < StartOf(i) + Len(Marked(i))}

\* C25: embed_poem, going on with n lines, uses spacing
\* max(3, height // (n + 2)); line i of them, from 0, when it is not blank,
\* is written into row (i + 1) * spacing and no other, and no line is
\* written from the first whose row is height or more; in its row the cells
\* from start to min(width, start + len(marked_line)) - 1 hold the
\* characters of marked_line in order, whatever they held; every other
\* cell of the canvas is as it was.
C25_EmbedFrame ==
    (last.op = "embed_poem" /\ last.lines # <<>>) =>
        /\ ~last.raised
        /\ Len(last.placed)
               = Cardinality({i \in 1..Len(last.selected) : IsWritten(i)})
        /\ \A r \in 0..(pat.height - 1) : \A c \in 0..(pat.width - 1) :
               /\ Cardinality(Covering(r, c)) <= 1
               /\ \A i \in Covering(r, c) :
                      pat.canvas[r + 1][c + 1] = Marked(i)[c - StartOf(i) + 1]
               /\ Covering(r, c) = {} =>
                      pat.canvas[r + 1][c + 1]
                          = last.before.canvas[r + 1][c + 1]

\* three lines, the first blank, on a canvas 16 high that holds glyphs:
\* the spacing is 16 // 5 = 3 and the two others are in rows 6 and 9, the
\* second cut at the width of the canvas
C25_Witness ==
    /\ last.op = "embed_poem"
    /\ pat.height = 16
    /\ last.selected = <<LineBlank, LineA, LineC>>
    /\ Inked(last.before.canvas)
    /\ Len(last.placed) = 2
    /\ last.placed[1].row = 6
    /\ last.placed[2].row = 9
    /\ StartOf(3) + Len(Marked(3)) > pat.width

\* the seed n steps of the generator after seed s (the steps taken by halves)
RECURSIVE LcgSteps(_, _)
LcgSteps(s, n) ==
    IF n <= 0 THEN s
    ELSE IF n = 1 THEN LcgStep(s)
    ELSE The({LcgSteps(half, n - n \div 2) : half \in {LcgSteps(s, n \div 2)}})

\* three steps for each stamp of the grid of draw_pattern: columns, rows,
\* instances, and two stamps an instance when they are mirrored
DrawSteps ==
    3 * (WholeIn(pat, pat.x_spacing) + 2) * (WholeIn(pat, pat.y_spacing) + 2)
      * pat.instances_per_step * (IF pat.mirror_instances THEN 2 ELSE 1)

\* C26: with a palette that is not empty, each draw_pattern advances the
\* generator by exactly 3 * columns * rows * instances_per_step * (2 if
\* mirror_instances else 1) steps, a glyph pick and two jitter draws for
\* each stamp, so that it ends, and a second call starts, on another seed
\* than it started from.
C26_FixedRandomness ==
    (last.op = "draw_pattern" /\ last.before.pattern_chars # <<>>) =>
        /\ pat.seed = LcgSteps(last.before.seed, DrawSteps)
        /\ pat.seed # last.before.seed
        /\ last.stamps * 3 = DrawSteps

\* a second draw_pattern, of 36 steps as the first, on the canvas the first
\* had drawn on: it leaves another canvas
C26_Witness ==
    /\ last.op = "draw_pattern"
    /\ steps = 2
    /\ DrawSteps = 36
    /\ last.before.pattern_chars # <<>>
    /\ Inked(last.before.canvas)
    /\ last.before.seed = LcgSteps(last.fresh.seed, DrawSteps)
    /\ pat.canvas # last.before.canvas

\* a text is h rows of w characters: the line feeds, and they alone, stand
\* after each w characters, but for the last row
IsRowsOf(text, h, w) ==
    /\ Len(text) = h * (w + 1) - 1
    /\ \A i \in 1..Len(text) : (text[i] = 10) <=> (i % (w + 1) = 0)

\* C27: after construction and any sequence of _set_rules,
\* set_random_group, palette replacement, draw_pattern, _draw_pattern_dense
\* and embed_poem, the canvas is height rows of width cells and each cell
\* holds a single character, so that to_text gives height rows of width
\* characters.
C27_SingleCharacterCells ==
    /\ Len(pat.canvas) = pat.height
    /\ \A r \in 1..pat.height :
           /\ Len(pat.canvas[r]) = pat.width
           /\ \A c \in 1..pat.width :
                  pat.canvas[r][c] # NoGlyph /\ GlyphLen(pat.canvas[r][c]) = 1
    /\ ~ToText(pat).raised
    /\ IsRowsOf(ToText(pat).text, pat.height, pat.width)

\* the word w stands in text from position p on
OccursAt(text, w, p) ==
    /\ p + Len(w) - 1 <= Len(text)
    /\ \A i \in 1..Len(w) : text[p + i - 1] = w[i]

\* C28: after embed_poem, a row of the canvas that holds the opening marker
\* '<poem>' holds the whole closing marker '</poem>' after it, and each row
\* a line was written in holds the opening marker.
C28_BothDelimiters ==
    last.op = "embed_poem" =>
        /\ \A k \in 1..Len(last.placed) :
               \E p \in 1..pat.width :
                   OccursAt(pat.canvas[last.placed[k].row + 1], PoemOpen, p)
        /\ \A r \in 1..pat.height : \A p \in 1..pat.width :
               OccursAt(pat.canvas[r], PoemOpen, p) =>
                   \E q \in (p + Len(PoemOpen))..pat.width :
                       OccursAt(pat.canvas[r], PoemClose, q)

\* C29: after construction and any sequence of set_random_group,
\* draw_pattern and embed_poem, group is one of the 17 names and the rule
\* fields are the rule record of that group; set_random_group takes exactly
\* one step of the generator and leaves the canvas, the palette,
\* base_rotation, width and height as they were; draw_pattern and
\* embed_poem leave the group and every rule field as they were.
C29_GroupAndRules ==
    /\ pat.group \in Groups
    /\ Rules(pat) = Rules(SetRules(last.fresh, pat.group))
    /\ last.op = "set_random_group" =>
           /\ pat.seed = LcgStep(last.before.seed)
           /\ pat.group = GROUP_NAMES[(pat.seed % 17) + 1]
           /\ pat.canvas = last.before.canvas
           /\ pat.pattern_chars = last.before.pattern_chars
           /\ pat.base_rotation = last.before.base_rotation
           /\ pat.width = last.before.width
           /\ pat.height = last.before.height
    /\ last.op \in {"draw_pattern", "embed_poem"} =>
           /\ pat.group = last.before.group
           /\ Rules(pat) = Rules(last.before)

\* set_random_group has changed the group and the rules of an instance
\* whose canvas holds glyphs
C29_Witness ==
    /\ last.op = "set_random_group"
    /\ pat.group # last.before.group
    /\ Rules(pat) # Rules(last.before)
    /\ Inked(pat.canvas)

\* the two stamps of an instance of a mirrored group have been made: the
\* one of sign +1 last, the one of sign -1 before it
MirrorPairMade ==
    /\ run.op = "draw_pattern"
    /\ pat.mirror_instances
    /\ run.passes > 0
    /\ run.passes % 2 = 0

\* C30: with mirror_instances set, draw_pattern makes two stamps for each
\* instance, of mirror signs -1 and +1, and the stamp of sign -1 is placed,
\* before the jitter, at the mirror image of the place of the stamp of sign
\* +1, in one axis or the other: the sign takes part in the position.
C30_MirrorImage ==
    /\ (run.op = "done" /\ run.of = "draw_pattern" /\ pat.mirror_instances) =>
           run.passes = 2 * (WholeIn(pat, pat.x_spacing) + 2)
                          * (WholeIn(pat, pat.y_spacing) + 2)
                          * pat.instances_per_step
    /\ MirrorPairMade =>
           \/ run.earlier = <<-run.final[1], run.final[2]>>
           \/ run.earlier = <<run.final[1], -run.final[2]>>

=============================================================================
